---- MODULE Spec2Model ----
(***************************************************************************)
(* A model of movie_query.py: the record model, the loader's sort, the     *)
(* argument classifier (collect_filters), the filter engine                *)
(* (filter_results), and the command engine (perform_commands with the     *)
(* top-ten reductions, the output sink and the insights).                  *)
(*                                                                         *)
(* Representation.  A Python str is a sequence of one-character strings.   *)
(* An Optional value is a sequence of length 0 (None) or 1 (the value).    *)
(* imdb_rating, a float with one decimal in the data, is held in tenths;   *)
(* a parsed float threshold is a fraction [num, den].                      *)
(***************************************************************************)
EXTENDS Integers, Sequences, FiniteSets, TLC

\* ------------------------------------------------------------------ strings

LowerChar(c) ==
    CASE c = "A" -> "a" [] c = "B" -> "b" [] c = "C" -> "c" [] c = "D" -> "d"
      [] c = "E" -> "e" [] c = "F" -> "f" [] c = "G" -> "g" [] c = "H" -> "h"
      [] c = "I" -> "i" [] c = "J" -> "j" [] c = "K" -> "k" [] c = "L" -> "l"
      [] c = "M" -> "m" [] c = "N" -> "n" [] c = "O" -> "o" [] c = "P" -> "p"
      [] c = "Q" -> "q" [] c = "R" -> "r" [] c = "S" -> "s" [] c = "T" -> "t"
      [] c = "U" -> "u" [] c = "V" -> "v" [] c = "W" -> "w" [] c = "X" -> "x"
      [] c = "Y" -> "y" [] c = "Z" -> "z" [] OTHER -> c

\* str.lower()
Lower(s) == [i \in 1..Len(s) |-> LowerChar(s[i])]

\* str.startswith(p)
StartsWith(s, p) == Len(s) >= Len(p) /\ SubSeq(s, 1, Len(p)) = p

\* a in b, for two strs: substring containment
Contains(b, a) ==
    \E i \in 1..(Len(b) - Len(a) + 1) : SubSeq(b, i, i + Len(a) - 1) = a

\* str.split(sep) for a one-character sep: the pieces between separators,
\* nothing stripped, empty pieces kept
RECURSIVE SplitAcc(_, _, _)
SplitAcc(s, sep, cur) ==
    IF s = <<>> THEN <<cur>>
    ELSE IF Head(s) = sep THEN <<cur>> \o SplitAcc(Tail(s), sep, <<>>)
    ELSE SplitAcc(Tail(s), sep, Append(cur, Head(s)))

Split(s, sep) == SplitAcc(s, sep, <<>>)

\* membership of a value in a Python list
InList(x, l) == \E i \in 1..Len(l) : l[i] = x

\* ------------------------------------------------------------------ optionals

None == <<>>

Some(v) == <<v>>

\* truth value of an Optional[int] or Optional[float] (None and 0 are falsy)
TruthyNum(o) == o # None /\ o[1] # 0

\* truth value of an Optional[str] (None and "" are falsy)
TruthyStr(o) == o # None /\ o[1] # <<>>

\* ------------------------------------------------------------------ int(), float()

IsDigit(c) == c \in {"0", "1", "2", "3", "4", "5", "6", "7", "8", "9"}

DigitVal(c) ==
    CASE c = "0" -> 0 [] c = "1" -> 1 [] c = "2" -> 2 [] c = "3" -> 3
      [] c = "4" -> 4 [] c = "5" -> 5 [] c = "6" -> 6 [] c = "7" -> 7
      [] c = "8" -> 8 [] c = "9" -> 9

AllDigits(s) == s # <<>> /\ \A i \in 1..Len(s) : IsDigit(s[i])

RECURSIVE DigitsVal(_)
DigitsVal(s) ==
    IF s = <<>> THEN 0
    ELSE 10 * DigitsVal(SubSeq(s, 1, Len(s) - 1)) + DigitVal(s[Len(s)])

RECURSIVE Pow10(_)
Pow10(k) == IF k = 0 THEN 1 ELSE 10 * Pow10(k - 1)

\* the sign of a numeric literal and the literal without it
SignOf(s) == IF s # <<>> /\ s[1] = "-" THEN -1 ELSE 1

Unsigned(s) == IF s # <<>> /\ s[1] \in {"-", "+"} THEN Tail(s) ELSE s

\* int(s): None stands for ValueError.  Literals are an optional sign and
\* decimal digits.
ParseInt(s) ==
    IF AllDigits(Unsigned(s)) THEN Some(SignOf(s) * DigitsVal(Unsigned(s))) ELSE None

\* float(s): None stands for ValueError.  Literals are an optional sign, then
\* digits, digits "." digits, digits "." or "." digits; the value is num/den.
ParseFloat(s) ==
    LET u == Unsigned(s)
        parts == Split(u, ".")
    IN  IF Len(parts) = 1 /\ AllDigits(u)
        THEN Some([num |-> SignOf(s) * DigitsVal(u), den |-> 1])
        ELSE IF /\ Len(parts) = 2
                /\ parts[1] \o parts[2] # <<>>
                /\ \A i \in 1..2 : parts[i] = <<>> \/ AllDigits(parts[i])
        THEN Some([num |-> SignOf(s) * (DigitsVal(parts[1]) * Pow10(Len(parts[2]))
                                          + DigitsVal(parts[2])),
                   den |-> Pow10(Len(parts[2]))])
        ELSE None

\* ------------------------------------------------------------------ flags and command values

F_year_before == <<"-", "-", "y", "e", "a", "r", "-", "b", "e", "f", "o", "r", "e">>

F_year_after == <<"-", "-", "y", "e", "a", "r", "-", "a", "f", "t", "e", "r">>

F_rating_above == <<"-", "-", "r", "a", "t", "i", "n", "g", "-", "a", "b", "o", "v", "e">>

F_rating_below == <<"-", "-", "r", "a", "t", "i", "n", "g", "-", "b", "e", "l", "o", "w">>

F_runtime_above == <<"-", "-", "r", "u", "n", "t", "i", "m", "e", "-", "a", "b", "o", "v", "e">>

F_runtime_below == <<"-", "-", "r", "u", "n", "t", "i", "m", "e", "-", "b", "e", "l", "o", "w">>

F_gross_above == <<"-", "-", "g", "r", "o", "s", "s", "-", "a", "b", "o", "v", "e">>

F_gross_below == <<"-", "-", "g", "r", "o", "s", "s", "-", "b", "e", "l", "o", "w">>

F_score_above == <<"-", "-", "s", "c", "o", "r", "e", "-", "a", "b", "o", "v", "e">>

F_score_below == <<"-", "-", "s", "c", "o", "r", "e", "-", "b", "e", "l", "o", "w">>

F_votes_above == <<"-", "-", "v", "o", "t", "e", "s", "-", "a", "b", "o", "v", "e">>

F_votes_below == <<"-", "-", "v", "o", "t", "e", "s", "-", "b", "e", "l", "o", "w">>

F_title == <<"-", "-", "t", "i", "t", "l", "e">>

F_director == <<"-", "-", "d", "i", "r", "e", "c", "t", "o", "r">>

F_actor == <<"-", "-", "a", "c", "t", "o", "r">>

F_genre == <<"-", "-", "g", "e", "n", "r", "e">>

F_age_rating == <<"-", "-", "a", "g", "e", "-", "r", "a", "t", "i", "n", "g">>

F_top_ten == <<"-", "-", "t", "o", "p", "-", "t", "e", "n">>

F_output == <<"-", "-", "o", "u", "t", "p", "u", "t">>

F_insights == <<"-", "-", "i", "n", "s", "i", "g", "h", "t", "s">>

F_help == <<"-", "-", "h", "e", "l", "p">>

F_h == <<"-", "h">>

V_highest_rated == <<"h", "i", "g", "h", "e", "s", "t", "-", "r", "a", "t", "e", "d">>

V_most_popular == <<"m", "o", "s", "t", "-", "p", "o", "p", "u", "l", "a", "r">>

V_highest_grossing == <<"h", "i", "g", "h", "e", "s", "t", "-", "g", "r", "o", "s", "s", "i", "n", "g">>

V_longest_runtime == <<"l", "o", "n", "g", "e", "s", "t", "-", "r", "u", "n", "t", "i", "m", "e">>

V_hidden_gems == <<"h", "i", "d", "d", "e", "n", "-", "g", "e", "m", "s">>

V_genre == <<"g", "e", "n", "r", "e">>

V_year == <<"y", "e", "a", "r">>

S_json == <<"j", "s", "o", "n">>

S_csv == <<"c", "s", "v">>

S_dashdash == <<"-", "-">>

\* ------------------------------------------------------------------ record model

\* MovieMetric's declared constraints on a constructed record (Field(gt=..),
\* Field(ge=.., le=..)); None passes each of them.  imdb_rating is in tenths.
MovieMetric(m) ==
    /\ m.runtime = None \/ m.runtime[1] > 0
    /\ m.imdb_rating = None \/ (m.imdb_rating[1] >= 0 /\ m.imdb_rating[1] <= 100)
    /\ m.meta_score = None \/ (m.meta_score[1] > 0 /\ m.meta_score[1] <= 100)
    /\ m.no_of_votes = None \/ m.no_of_votes[1] > 0

\* ------------------------------------------------------------------ flag_map

\* the outcome of one predicate call: its truth value, or the exception it raises
\* "field and field OP parse(raw)": the field is tested first, the raw value
\* is parsed only when the field is truthy
IntPredicate(field, raw, above) ==
    IF ~TruthyNum(field) THEN "False"
    ELSE IF ParseInt(raw) = None THEN "ValueError"
    ELSE IF above
         THEN (IF field[1] > ParseInt(raw)[1] THEN "True" ELSE "False")
         ELSE (IF field[1] < ParseInt(raw)[1] THEN "True" ELSE "False")

\* the same against float(raw); the rating r is in tenths, so r/10 OP num/den
FloatPredicate(field, raw, above) ==
    IF ~TruthyNum(field) THEN "False"
    ELSE IF ParseFloat(raw) = None THEN "ValueError"
    ELSE LET t == ParseFloat(raw)[1]
         IN  IF above
             THEN (IF field[1] * t.den > t.num * 10 THEN "True" ELSE "False")
             ELSE (IF field[1] * t.den < t.num * 10 THEN "True" ELSE "False")

\* title.lower() in movie.series_title.lower(), guarded by the field's truth
SubstringPredicate(field, raw) ==
    IF ~TruthyStr(field) THEN "False"
    ELSE IF Contains(Lower(field[1]), Lower(raw)) THEN "True" ELSE "False"

\* the four stars are lowered unconditionally: None.lower() raises
ActorPredicate(movie, actor) ==
    IF \E s \in {movie.star_1, movie.star_2, movie.star_3, movie.star_4} : s = None
    THEN "AttributeError"
    ELSE IF Lower(actor) \in {Lower(movie.star_1[1]), Lower(movie.star_2[1]),
                              Lower(movie.star_3[1]), Lower(movie.star_4[1])}
    THEN "True" ELSE "False"

\* genre.lower() in movie.genre.lower().split(",")
GenrePredicate(movie, genre) ==
    IF ~TruthyStr(movie.genre) THEN "False"
    ELSE IF InList(Lower(genre), Split(Lower(movie.genre[1]), ","))
    THEN "True" ELSE "False"

\* movie.certificate.lower() == certificate.lower()
AgeRatingPredicate(movie, certificate) ==
    IF ~TruthyStr(movie.certificate) THEN "False"
    ELSE IF Lower(movie.certificate[1]) = Lower(certificate) THEN "True" ELSE "False"

NumericFlags ==
    {F_year_before, F_year_after, F_rating_above, F_rating_below,
     F_runtime_above, F_runtime_below, F_gross_above, F_gross_below,
     F_score_above, F_score_below, F_votes_above, F_votes_below}

FilterFlags ==
    NumericFlags \cup {F_title, F_director, F_actor, F_genre, F_age_rating}

\* self.flag_map[flag](movie, value)
flag_map(flag, movie, value) ==
    CASE flag = F_year_before   -> IntPredicate(movie.released_year, value, FALSE)
      [] flag = F_year_after    -> IntPredicate(movie.released_year, value, TRUE)
      [] flag = F_rating_above  -> FloatPredicate(movie.imdb_rating, value, TRUE)
      [] flag = F_rating_below  -> FloatPredicate(movie.imdb_rating, value, FALSE)
      [] flag = F_runtime_above -> IntPredicate(movie.runtime, value, TRUE)
      [] flag = F_runtime_below -> IntPredicate(movie.runtime, value, FALSE)
      [] flag = F_gross_above   -> IntPredicate(movie.gross, value, TRUE)
      [] flag = F_gross_below   -> IntPredicate(movie.gross, value, FALSE)
      [] flag = F_score_above   -> IntPredicate(movie.meta_score, value, TRUE)
      [] flag = F_score_below   -> IntPredicate(movie.meta_score, value, FALSE)
      [] flag = F_votes_above   -> IntPredicate(movie.no_of_votes, value, TRUE)
      [] flag = F_votes_below   -> IntPredicate(movie.no_of_votes, value, FALSE)
      [] flag = F_title         -> SubstringPredicate(Some(movie.series_title), value)
      [] flag = F_director      -> SubstringPredicate(movie.director, value)
      [] flag = F_actor         -> ActorPredicate(movie, value)
      [] flag = F_genre         -> GenrePredicate(movie, value)
      [] flag = F_age_rating    -> AgeRatingPredicate(movie, value)

\* the keys of self.command_map
CommandFlags == {F_top_ten, F_output, F_insights}

\* ------------------------------------------------------------------ dicts

\* A dict[str, str] is the sequence of its items in insertion order.
DictHas(d, k) == \E j \in 1..Len(d) : d[j].flag = k

DictGet(d, k) == d[CHOOSE j \in 1..Len(d) : d[j].flag = k].value

\* DictSet with the bug of never overwriting: the first value of a key stands
DictSetKeepFirst(d, k, v) ==
    IF DictHas(d, k) THEN d ELSE Append(d, [flag |-> k, value |-> v])

\* d[k] = v: a new key goes last, an existing key keeps its place
DictSet(d, k, v) ==
    IF DictHas(d, k)
    THEN [j \in 1..Len(d) |-> IF d[j].flag = k THEN [flag |-> k, value |-> v] ELSE d[j]]
    ELSE Append(d, [flag |-> k, value |-> v])

\* ------------------------------------------------------------------ filter_results

\* The inner loop of filter_results over one movie, from the item at position
\* j on: match_all_filters, abort, the exception that escapes the loop (""
\* when none) and the predicate calls made.  "a and f()" calls f only when a
\* is truthy; a ValueError is caught and the loop goes on; any other
\* exception leaves the loop.
RECURSIVE FilterLoop(_, _, _, _, _, _)
FilterLoop(movie, filters, j, match, abort, calls) ==
    IF j > Len(filters)
    THEN [match |-> match, abort |-> abort, raised |-> "", calls |-> calls]
    ELSE IF ~match
    THEN FilterLoop(movie, filters, j + 1, match, abort, calls)
    ELSE LET r == flag_map(filters[j].flag, movie, filters[j].value)
             c == calls \cup {[flag |-> filters[j].flag, value |-> filters[j].value,
                               movie |-> movie, outcome |-> r]}
         IN  CASE r = "ValueError" ->
                    FilterLoop(movie, filters, j + 1, match, TRUE, c)
               [] r = "AttributeError" ->
                    [match |-> match, abort |-> abort, raised |-> r, calls |-> c]
               [] OTHER ->
                    FilterLoop(movie, filters, j + 1, r = "True", abort, c)

\* ------------------------------------------------------------------ sorting

\* Sort keys are fractions [num, den] with den > 0.
KeyLess(a, b) == a.num * b.den < b.num * a.den

IntKey(n) == [num |-> n, den |-> 1]

\* One insertion of Python's stable ascending sort: e goes after every item
\* whose key is not greater than its own.
RECURSIVE InsertSorted(_, _)
InsertSorted(s, e) ==
    IF s = <<>> THEN <<e>>
    ELSE IF KeyLess(e.key, Head(s).key) THEN <<e>> \o s
    ELSE <<Head(s)>> \o InsertSorted(Tail(s), e)

\* sorted(items, key=...) over [key, item] pairs: ascending, ties in input order
RECURSIVE SortedPairs(_)
SortedPairs(ps) ==
    IF ps = <<>> THEN <<>>
    ELSE InsertSorted(SortedPairs(SubSeq(ps, 1, Len(ps) - 1)), ps[Len(ps)])

Items(ps) == [j \in 1..Len(ps) |-> ps[j].item]

\* ------------------------------------------------------------------ load_movies

\* movies.sort(key=lambda x: x.imdb_rating, reverse=True): stable, descending;
\* comparing a None key raises TypeError, which needs two records.
load_movies(rows) ==
    IF Len(rows) >= 2 /\ \E j \in 1..Len(rows) : rows[j].imdb_rating = None
    THEN [raised |-> "TypeError", movies |-> <<>>]
    ELSE IF Len(rows) < 2
    THEN [raised |-> "", movies |-> rows]
    ELSE [raised |-> "",
          movies |-> Items(SortedPairs([j \in 1..Len(rows) |->
                        [key |-> IntKey(-rows[j].imdb_rating[1]), item |-> rows[j]]]))]

\* ------------------------------------------------------------------ top_ten_map

TopN == 10

TopTenValues ==
    {V_highest_rated, V_most_popular, V_highest_grossing, V_longest_runtime,
     V_hidden_gems}

\* the fields a criterion's key reads
KeyFields(value, movie) ==
    CASE value = V_highest_rated    -> <<movie.imdb_rating>>
      [] value = V_most_popular     -> <<movie.no_of_votes>>
      [] value = V_highest_grossing -> <<movie.gross>>
      [] value = V_longest_runtime  -> <<movie.runtime>>
      [] value = V_hidden_gems      -> <<movie.imdb_rating, movie.no_of_votes>>

\* the key lambda of a criterion, on a record that has the fields
SortKey(value, movie) ==
    CASE value = V_highest_rated    -> IntKey(-movie.imdb_rating[1])
      [] value = V_most_popular     -> IntKey(-movie.no_of_votes[1])
      [] value = V_highest_grossing -> IntKey(-movie.gross[1])
      [] value = V_longest_runtime  -> IntKey(-movie.runtime[1])
      [] value = V_hidden_gems      ->
            [num |-> -movie.imdb_rating[1], den |-> movie.no_of_votes[1]]

\* self.top_ten_map[value](movies): sorted(...)[:10]; the key of every record
\* is computed, and -None raises TypeError
top_ten_map(value, movies) ==
    IF \E j \in 1..Len(movies) : \E k \in 1..Len(KeyFields(value, movies[j])) :
           KeyFields(value, movies[j])[k] = None
    THEN [raised |-> "TypeError", movies |-> <<>>]
    ELSE LET s == Items(SortedPairs([j \in 1..Len(movies) |->
                      [key |-> SortKey(value, movies[j]), item |-> movies[j]]]))
         IN  [raised |-> "",
              movies |-> SubSeq(s, 1, IF Len(s) < TopN THEN Len(s) ELSE TopN)]

\* ------------------------------------------------------------------ insights

RECURSIVE SumOver(_, _, _)
SumOver(movies, idx, field) ==
    IF idx = {} THEN 0
    ELSE LET j == CHOOSE x \in idx : TRUE
         IN  movies[j][field][1] + SumOver(movies, idx \ {j}, field)

\* the stat of one group, from the positions of the records counted in it
GroupStat(key, movies, idx) ==
    [key |-> key,
     average_rating |-> [num |-> SumOver(movies, idx, "imdb_rating"),
                         den |-> 10 * Cardinality(idx)],
     average_gross |-> SumOver(movies, idx, "gross") \div Cardinality(idx),
     average_runtime |-> SumOver(movies, idx, "runtime") \div Cardinality(idx)]

\* "movie.imdb_rating and movie.gross and movie.runtime"
HasAllMetrics(movie) ==
    TruthyNum(movie.imdb_rating) /\ TruthyNum(movie.gross) /\ TruthyNum(movie.runtime)

\* generate_genre_insights: the keys are the whole genre fields; a record is
\* counted under a key when the key is one of the pieces of its own genre
\* split on ","; None.split raises AttributeError.  The printed stats are a
\* set: they come in the iteration order of a Python set.
generate_genre_insights(movies) ==
    LET genres == {movies[j].genre : j \in 1..Len(movies)}
        members(g) == {j \in 1..Len(movies) :
                          /\ g # None
                          /\ InList(g[1], Split(movies[j].genre[1], ","))
                          /\ HasAllMetrics(movies[j])}
    IN  IF \E j \in 1..Len(movies) : movies[j].genre = None
        THEN [raised |-> "AttributeError", stats |-> {}]
        ELSE [raised |-> "",
              stats |-> {GroupStat(g, movies, members(g)) :
                            g \in {h \in genres : members(h) # {}}}]

\* generate_year_insights: the keys are the released_year fields, None among
\* them; stats.sort(key=-year) raises TypeError on a None key.  The order of
\* the sorted stats is that of their keys, so they are given as a set here too.
generate_year_insights(movies) ==
    LET years == {movies[j].released_year : j \in 1..Len(movies)}
        members(y) == {j \in 1..Len(movies) :
                          y = movies[j].released_year /\ HasAllMetrics(movies[j])}
    IN  IF members(None) # {}
        THEN [raised |-> "TypeError", stats |-> {}]
        ELSE [raised |-> "",
              stats |-> {GroupStat(y, movies, members(y)) :
                            y \in {h \in years : members(h) # {}}}]

InsightsValues == {V_genre, V_year}

\* self.insights_map[value](movies)
insights_map(value, movies) ==
    IF value = V_genre THEN generate_genre_insights(movies)
    ELSE generate_year_insights(movies)

\* ------------------------------------------------------------------ output

\* filename.split(".")[-1]
Extension(filename) == Split(filename, ".")[Len(Split(filename, "."))]

\* print_output's choice of serialisation
FileFormat(filename) ==
    IF Extension(filename) = S_json THEN "json"
    ELSE IF Extension(filename) = S_csv THEN "csv" ELSE "text"

\* print(movies) calls MovieMetric.__repr__ on every record, and
\* ', '.join of the four stars raises TypeError on a None star
ReprRaises(movies) ==
    \E j \in 1..Len(movies) :
        \E s \in {movies[j].star_1, movies[j].star_2, movies[j].star_3, movies[j].star_4} :
            s = None

\* ------------------------------------------------------------------ collect_filters

\* collect_filters_step with the bug of passing over an unknown flag and its
\* value instead of exiting
collect_filters_step_skip(args, index, filters, commands, dups) ==
    LET flag == args[index + 1]
        same == [filters |-> filters, commands |-> commands, dups |-> dups,
                 index |-> index, exit |-> ""]
    IN  IF ~StartsWith(flag, S_dashdash)
        THEN [same EXCEPT !.exit = "MalformedArgument"]
        ELSE IF ~(index + 1 < Len(args) /\ ~StartsWith(args[index + 2], S_dashdash))
        THEN [same EXCEPT !.exit = "MissingFlagValue"]
        ELSE IF flag \in FilterFlags
        THEN [same EXCEPT !.filters = DictSet(filters, flag, args[index + 2]),
                          !.index = index + 2]
        ELSE IF flag \in CommandFlags
        THEN IF DictHas(commands, flag)
             THEN [same EXCEPT !.dups = Append(dups, flag), !.index = index + 2]
             ELSE [same EXCEPT !.commands = DictSet(commands, flag, args[index + 2]),
                               !.index = index + 2]
        ELSE [same EXCEPT !.index = index + 2]

\* One iteration of the while loop of collect_filters at `index` (0-based):
\* the dicts, the duplicates reported, the next index and the exit taken.
collect_filters_step(args, index, filters, commands, dups) ==
    LET flag == args[index + 1]
        same == [filters |-> filters, commands |-> commands, dups |-> dups,
                 index |-> index, exit |-> ""]
    IN  IF ~StartsWith(flag, S_dashdash)
        THEN [same EXCEPT !.exit = "MalformedArgument"]
        ELSE IF ~(index + 1 < Len(args) /\ ~StartsWith(args[index + 2], S_dashdash))
        THEN [same EXCEPT !.exit = "MissingFlagValue"]
        ELSE IF flag \in FilterFlags
        THEN [same EXCEPT !.filters = DictSet(filters, flag, args[index + 2]),
                          !.index = index + 2]
        ELSE IF flag \in CommandFlags
        THEN IF DictHas(commands, flag)
             THEN [same EXCEPT !.dups = Append(dups, flag), !.index = index + 2]
             ELSE [same EXCEPT !.commands = DictSet(commands, flag, args[index + 2]),
                               !.index = index + 2]
        ELSE [same EXCEPT !.exit = "UnknownFlag"]

\* collect_filters(args, index): the loop run to its end or to its exit
RECURSIVE CollectFrom(_, _, _, _, _)
CollectFrom(args, index, filters, commands, dups) ==
    IF index >= Len(args)
    THEN [filters |-> filters, commands |-> commands, dups |-> dups,
          index |-> index, exit |-> ""]
    ELSE LET r == collect_filters_step(args, index, filters, commands, dups)
         IN  IF r.exit # "" THEN r
             ELSE CollectFrom(args, r.index, r.filters, r.commands, r.dups)

collect_filters(args, index) == CollectFrom(args, index, <<>>, <<>>, <<>>)

\* ------------------------------------------------------------------ state

VARIABLES
    args,       \* sys.argv[1:]
    rows,       \* the records the source file holds, in file order
    pc,         \* main, load, classify, filter, top_ten, output, insights,
                \* done, exit (an exit(message)), crash (an uncaught exception)
    err,        \* what ended the run: the exit's kind or the exception's type
    index,      \* collect_filters' index into args (0-based)
    movies,     \* the loaded collection
    filters,    \* the FilterSet dict
    commands,   \* the CommandSet dict
    dups,       \* the command flags reported as duplicates, in order
    i,          \* the records filter_results has gone through
    results,    \* the collection handed on: filter_results' list, then top-ten's
    calls,      \* the predicate calls made by filter_results
    out         \* what the run has produced: the "Found" count, whether a
                \* top-ten reduction was applied, the file written, the
                \* listing printed, the insights printed

vars == <<args, rows, pc, err, index, movies, filters, commands, dups, i,
          results, calls, out>>

NoOutput ==
    [found |-> None, top_ten |-> FALSE, file |-> None, listing |-> None,
     insights |-> None]

\* ------------------------------------------------------------------ actions

\* the __main__ block
Main ==
    /\ pc = "main"
    /\ IF Len(args) = 0
       THEN pc' = "exit" /\ err' = "NoArguments"
       ELSE IF args[1] \in {F_help, F_h}
       THEN pc' = "exit" /\ err' = "Help"
       ELSE pc' = "load" /\ err' = err
    /\ UNCHANGED <<args, rows, index, movies, filters, commands, dups, i,
                   results, calls, out>>

\* run_movie_query up to the call of collect_filters: the source is chosen
\* from args[0] and loaded.  Whether the chosen file can be opened is the
\* environment's choice; a file that opens holds `rows`.
LoadSource ==
    /\ pc = "load"
    /\ \E opens \in BOOLEAN :
         LET named == /\ ~StartsWith(args[1], S_dashdash)
                      /\ Extension(args[1]) = S_csv
             loaded == load_movies(rows)
         IN  IF ~opens
             THEN /\ pc' = "exit" /\ err' = "SourceNotFound"
                  /\ UNCHANGED <<index, movies>>
             ELSE IF loaded.raised # ""
             THEN /\ pc' = "crash" /\ err' = loaded.raised
                  /\ UNCHANGED <<index, movies>>
             ELSE /\ pc' = "classify" /\ err' = err
                  /\ movies' = loaded.movies
                  /\ index' = IF named THEN 1 ELSE 0
    /\ UNCHANGED <<args, rows, filters, commands, dups, i, results, calls, out>>

\* one iteration of collect_filters' loop
ClassifyStep ==
    /\ pc = "classify"
    /\ index < Len(args)
    /\ LET r == collect_filters_step(args, index, filters, commands, dups)
       IN  /\ filters' = r.filters
           /\ commands' = r.commands
           /\ dups' = r.dups
           /\ index' = r.index
           /\ IF r.exit # ""
              THEN pc' = "exit" /\ err' = r.exit
              ELSE pc' = pc /\ err' = err
    /\ UNCHANGED <<args, rows, movies, i, results, calls, out>>

\* collect_filters returns; run_movie_query sets results = movies and calls
\* filter_results only for a non-empty filters dict
ClassifyReturn ==
    /\ pc = "classify"
    /\ index >= Len(args)
    /\ pc' = IF filters # <<>> THEN "filter" ELSE "top_ten"
    /\ results' = IF filters # <<>> THEN <<>> ELSE movies
    /\ UNCHANGED <<args, rows, err, index, movies, filters, commands, dups, i,
                   calls, out>>

\* one iteration of filter_results' loop over the movies
FilterMovie ==
    /\ pc = "filter"
    /\ i < Len(movies)
    /\ LET movie == movies[i + 1]
           r == FilterLoop(movie, filters, 1, TRUE, FALSE, {})
       IN  /\ calls' = calls \cup r.calls
           /\ i' = i + 1
           /\ IF r.raised # ""
              THEN pc' = "crash" /\ err' = r.raised /\ results' = results
              ELSE IF r.abort
              THEN pc' = "exit" /\ err' = "InvalidFilterValue" /\ results' = results
              ELSE /\ pc' = pc /\ err' = err
                   /\ results' = IF r.match THEN Append(results, movie) ELSE results
    /\ UNCHANGED <<args, rows, index, movies, filters, commands, dups, out>>

\* filter_results returns and the count of matches is printed
FilterReturn ==
    /\ pc = "filter"
    /\ i >= Len(movies)
    /\ pc' = "top_ten"
    /\ out' = [out EXCEPT !.found = Some(Len(results))]
    /\ UNCHANGED <<args, rows, err, index, movies, filters, commands, dups, i,
                   results, calls>>

\* perform_commands, the "--top-ten" block
TopTen ==
    /\ pc = "top_ten"
    /\ IF ~DictHas(commands, F_top_ten)
       THEN pc' = "output" /\ UNCHANGED <<err, results, out>>
       ELSE IF DictGet(commands, F_top_ten) \notin TopTenValues
       THEN pc' = "exit" /\ err' = "UnknownCommandValue" /\ UNCHANGED <<results, out>>
       ELSE LET r == top_ten_map(DictGet(commands, F_top_ten), results)
            IN  IF r.raised # ""
                THEN pc' = "crash" /\ err' = r.raised /\ UNCHANGED <<results, out>>
                ELSE /\ pc' = "output" /\ err' = err
                     /\ results' = r.movies
                     /\ out' = [out EXCEPT !.top_ten = TRUE]
    /\ UNCHANGED <<args, rows, index, movies, filters, commands, dups, i, calls>>

\* perform_commands, the "--output" block: the file is written (whether it can
\* be is the environment's choice), or the listing is printed
Output ==
    /\ pc = "output"
    /\ IF DictHas(commands, F_output)
       THEN \E written \in BOOLEAN :
              IF written
              THEN /\ pc' = "insights" /\ err' = err
                   /\ out' = [out EXCEPT !.file =
                                Some([name |-> DictGet(commands, F_output),
                                      format |-> FileFormat(DictGet(commands, F_output)),
                                      records |-> results])]
              ELSE pc' = "exit" /\ err' = "OutputWriteError" /\ out' = out
       ELSE IF ReprRaises(results)
       THEN pc' = "crash" /\ err' = "TypeError" /\ out' = out
       ELSE /\ pc' = "insights" /\ err' = err
            /\ out' = [out EXCEPT !.listing = Some(results)]
    /\ UNCHANGED <<args, rows, index, movies, filters, commands, dups, i,
                   results, calls>>

\* perform_commands, the "--insights" block
Insights ==
    /\ pc = "insights"
    /\ IF ~DictHas(commands, F_insights)
       THEN pc' = "done" /\ UNCHANGED <<err, out>>
       ELSE IF DictGet(commands, F_insights) \notin InsightsValues
       THEN pc' = "exit" /\ err' = "UnknownCommandValue" /\ out' = out
       ELSE LET r == insights_map(DictGet(commands, F_insights), results)
            IN  IF r.raised # ""
                THEN pc' = "crash" /\ err' = r.raised /\ out' = out
                ELSE /\ pc' = "done" /\ err' = err
                     /\ out' = [out EXCEPT !.insights =
                                  Some([kind |-> DictGet(commands, F_insights),
                                        stats |-> r.stats])]
    /\ UNCHANGED <<args, rows, index, movies, filters, commands, dups, i,
                   results, calls>>

\* ------------------------------------------------------------------ inputs

\* the strings the inputs are made of

T_m_csv == <<"m", ".", "c", "s", "v">>

T_drama == <<"d", "r", "a", "m", "a">>

T_foo == <<"-", "-", "f", "o", "o">>

T_out_json == <<"o", "u", "t", ".", "j", "s", "o", "n">>

T_2010 == <<"2", "0", "1", "0">>

T_8 == <<"8">>

T_90 == <<"9", "0">>

T_5 == <<"5">>

T_70 == <<"7", "0">>

T_10 == <<"1", "0">>

T_abc == <<"a", "b", "c">>

T_Comedy == <<"C", "o", "m", "e", "d", "y">>

T_Dra == <<"D", "r", "a">>

T_tom == <<"t", "o", "m">>

T_he == <<"h", "e">>

T_mann == <<"m", "a", "n", "n">>

T_pg == <<"p", "g">>

S_Heat == <<"H", "e", "a", "t">>

S_Up == <<"U", "p">>

S_Zero == <<"Z", "e", "r", "o">>

S_Gap == <<"G", "a", "p">>

S_Mute == <<"M", "u", "t", "e">>

S_Drama_Comedy == <<"D", "r", "a", "m", "a", ",", " ", "C", "o", "m", "e", "d", "y">>

S_Drama == <<"D", "r", "a", "m", "a">>

S_Mann == <<"M", "a", "n", "n">>

S_Tom == <<"T", "o", "m">>

S_Al == <<"A", "l">>

S_PG == <<"P", "G">>

S_R == <<"R">>

\* the records the source files are made of: a record is what MovieMetric(**row)
\* constructs, so each of them satisfies MovieMetric
m_heat ==
    [series_title |-> S_Heat, released_year |-> Some(2011), certificate |-> Some(S_PG),
     runtime |-> Some(120), genre |-> Some(S_Drama_Comedy), imdb_rating |-> Some(90),
     meta_score |-> Some(80), director |-> Some(S_Mann),
     star_1 |-> Some(S_Tom), star_2 |-> Some(S_Al), star_3 |-> Some(S_Al),
     star_4 |-> Some(S_Al), no_of_votes |-> Some(100), gross |-> Some(50)]

m_up ==
    [series_title |-> S_Up, released_year |-> Some(2010), certificate |-> Some(S_R),
     runtime |-> Some(90), genre |-> Some(S_Drama), imdb_rating |-> Some(80),
     meta_score |-> Some(70), director |-> Some(S_Mann),
     star_1 |-> Some(S_Al), star_2 |-> Some(S_Al), star_3 |-> Some(S_Al),
     star_4 |-> Some(S_Tom), no_of_votes |-> Some(10), gross |-> Some(5)]

\* year 0, rating 0.0 and gross 0: values the record model admits
m_zero ==
    [series_title |-> S_Zero, released_year |-> Some(0), certificate |-> Some(S_PG),
     runtime |-> Some(90), genre |-> Some(S_Drama), imdb_rating |-> Some(0),
     meta_score |-> Some(70), director |-> Some(S_Mann),
     star_1 |-> Some(S_Al), star_2 |-> Some(S_Al), star_3 |-> Some(S_Al),
     star_4 |-> Some(S_Al), no_of_votes |-> Some(10), gross |-> Some(0)]

\* a row with gaps: no year, no genre, no gross, no fourth star
m_gap ==
    [series_title |-> S_Gap, released_year |-> None, certificate |-> None,
     runtime |-> Some(120), genre |-> None, imdb_rating |-> Some(90),
     meta_score |-> None, director |-> None,
     star_1 |-> Some(S_Tom), star_2 |-> Some(S_Al), star_3 |-> Some(S_Al),
     star_4 |-> None, no_of_votes |-> Some(10), gross |-> None]

\* a row with no numeric field at all
m_mute ==
    [series_title |-> S_Mute, released_year |-> None, certificate |-> Some(S_R),
     runtime |-> None, genre |-> Some(S_Drama_Comedy), imdb_rating |-> None,
     meta_score |-> None, director |-> Some(S_Mann),
     star_1 |-> Some(S_Tom), star_2 |-> Some(S_Al), star_3 |-> Some(S_Al),
     star_4 |-> Some(S_Al), no_of_votes |-> None, gross |-> None]

MovieUniverse == {m \in {m_heat, m_up, m_zero, m_gap, m_mute} : MovieMetric(m)}

\* the sequences over S of length at most n
SeqsUpTo(S, n) == UNION {[1..k -> S] : k \in 0..n}

\* the source files: their rows as constructed records, loadable or not
Tables(n) == SeqsUpTo(MovieUniverse, n)

\* a dict as the argument tokens that produce it: flag, value, flag, value
RECURSIVE Flatten(_)
Flatten(d) ==
    IF d = <<>> THEN <<>> ELSE <<Head(d).flag, Head(d).value>> \o Flatten(Tail(d))

MaxArgs == 4

MaxMovies == 2

MaxFilters == 2

\* the argument tokens of a whole invocation: a source name, a word that is
\* neither a flag nor a source name, a filter flag, the three command flags,
\* an unknown flag, the help flag, and values of the commands
Tokens ==
    {T_m_csv, T_drama, F_genre, F_top_ten, F_output, F_insights, T_foo, F_help,
     V_year, V_highest_grossing}

\* the source files of a whole invocation: two full rows out of rating order,
\* one row with gaps, and two rows of which one has no rating
Fixtures == {<<m_up, m_heat>>, <<m_gap>>, <<m_mute, m_zero>>}

\* the filter flags with the values they are given
FilterPairs ==
    {[flag |-> F_year_before, value |-> T_2010], [flag |-> F_year_after, value |-> T_2010],
     [flag |-> F_rating_above, value |-> T_8], [flag |-> F_rating_below, value |-> T_8],
     [flag |-> F_runtime_above, value |-> T_90], [flag |-> F_runtime_below, value |-> T_90],
     [flag |-> F_gross_above, value |-> T_5], [flag |-> F_gross_below, value |-> T_5],
     [flag |-> F_score_above, value |-> T_70], [flag |-> F_score_below, value |-> T_70],
     [flag |-> F_votes_above, value |-> T_10], [flag |-> F_votes_below, value |-> T_10],
     [flag |-> F_year_after, value |-> T_abc], [flag |-> F_rating_above, value |-> T_abc],
     [flag |-> F_genre, value |-> S_Drama], [flag |-> F_genre, value |-> T_Comedy],
     [flag |-> F_genre, value |-> T_Dra], [flag |-> F_actor, value |-> T_tom],
     [flag |-> F_title, value |-> T_he], [flag |-> F_director, value |-> T_mann],
     [flag |-> F_age_rating, value |-> T_pg]}

\* a dict has each key once
IsDict(d) == \A j, k \in 1..Len(d) : d[j].flag = d[k].flag => j = k

FilterSets == {d \in SeqsUpTo(FilterPairs, MaxFilters) : IsDict(d)}

\* the command flags with the values they are given
CommandChoices(flag) ==
    CASE flag = F_top_ten  -> TopTenValues \cup {T_drama}
      [] flag = F_output   -> {T_out_json, T_m_csv, T_drama}
      [] flag = F_insights -> InsightsValues \cup {T_drama}

CommandOrder == <<F_top_ten, F_output, F_insights>>

RECURSIVE CommandSetsFrom(_)
CommandSetsFrom(k) ==
    IF k > Len(CommandOrder) THEN {<<>>}
    ELSE LET rest == CommandSetsFrom(k + 1)
         IN  rest \cup {<<[flag |-> CommandOrder[k], value |-> v]>> \o d :
                           v \in CommandChoices(CommandOrder[k]), d \in rest}

CommandSets == CommandSetsFrom(1)

\* ------------------------------------------------------------------ specifications

\* a whole invocation, from the __main__ block on
Init ==
    /\ args \in SeqsUpTo(Tokens, MaxArgs)
    /\ rows \in Fixtures
    /\ pc = "main"
    /\ err = ""
    /\ index = 0
    /\ movies = <<>>
    /\ filters = <<>>
    /\ commands = <<>>
    /\ dups = <<>>
    /\ i = 0
    /\ results = <<>>
    /\ calls = {}
    /\ out = NoOutput

Next ==
    \/ Main
    \/ LoadSource
    \/ ClassifyStep
    \/ ClassifyReturn
    \/ FilterMovie
    \/ FilterReturn
    \/ TopTen
    \/ Output
    \/ Insights

Spec == Init /\ [][Next]_vars

\* the filter engine on every loaded collection and every filter set: the
\* invocation whose arguments are the filter set's flags and values, at the
\* return of collect_filters
InitFilter ==
    /\ filters \in FilterSets
    /\ args = Flatten(filters)
    /\ rows \in {t \in Tables(MaxMovies) : load_movies(t).raised = ""}
    /\ movies = load_movies(rows).movies
    /\ pc = "classify"
    /\ err = ""
    /\ index = Len(args)
    /\ commands = <<>>
    /\ dups = <<>>
    /\ i = 0
    /\ results = <<>>
    /\ calls = {}
    /\ out = NoOutput

NextFilter ==
    \/ ClassifyReturn
    \/ FilterMovie
    \/ FilterReturn

SpecFilter == InitFilter /\ [][NextFilter]_vars

\* the command engine on every loaded collection and every command set: the
\* invocation whose arguments are the command set's flags and values, at the
\* call of perform_commands
InitCommands ==
    /\ commands \in CommandSets
    /\ args = Flatten(commands)
    /\ rows \in {t \in Tables(MaxMovies) : load_movies(t).raised = ""}
    /\ movies = load_movies(rows).movies
    /\ results = movies
    /\ pc = "top_ten"
    /\ err = ""
    /\ index = Len(args)
    /\ filters = <<>>
    /\ dups = <<>>
    /\ i = 0
    /\ calls = {}
    /\ out = NoOutput

NextCommands ==
    \/ TopTen
    \/ Output
    \/ Insights

SpecCommands == InitCommands /\ [][NextCommands]_vars

\* ------------------------------------------------------------------ the classifier's claims

\* where the walk starts (0-based): after a leading source name
WalkStart ==
    IF args # <<>> /\ ~StartsWith(args[1], S_dashdash) /\ Extension(args[1]) = S_csv
    THEN 1 ELSE 0

\* the 0-based positions the two-at-a-time walk visits when nothing stops it
PairPositions == {k \in 0..(Len(args) - 1) : k >= WalkStart /\ (k - WalkStart) % 2 = 0}

\* the token at pair position k stops the walk: it is no flag, or it has no
\* value after it, or it is not a recognised flag
Offending(k) ==
    \/ ~StartsWith(args[k + 1], S_dashdash)
    \/ k + 2 > Len(args)
    \/ StartsWith(args[k + 2], S_dashdash)
    \/ args[k + 1] \notin (FilterFlags \cup CommandFlags)

\* no record has been filtered, no reduction applied, nothing written or printed
NothingDone ==
    /\ i = 0
    /\ calls = {}
    /\ results = <<>>
    /\ out = NoOutput
    /\ pc \notin {"filter", "top_ten", "output", "insights", "done"}

\* C8: when a token at a pair position of the walk is no flag, lacks a value or
\* is an unrecognised flag, the invocation never filters a record, applies a
\* top-ten reduction, writes an output file, prints a listing or computes
\* insights, however many valid pairs come before that token.
C8_OffendingTokenStopsBeforeAnyWork ==
    (\E k \in PairPositions : Offending(k)) => NothingDone

\* C8's case: the walk has taken a valid filter pair and then exited on a
\* later token, with nothing done.
C8_Witness ==
    /\ pc = "exit"
    /\ err \in {"MalformedArgument", "MissingFlagValue", "UnknownFlag"}
    /\ index >= 2
    /\ filters # <<>>
    /\ \E k \in PairPositions : k >= 2 /\ Offending(k)
    /\ NothingDone

\* the 1-based positions of the tokens that are the flag f
Occurrences(f) == {k \in 1..Len(args) : args[k] = f}

Min(S) == CHOOSE x \in S : \A y \in S : x <= y

Max(S) == CHOOSE x \in S : \A y \in S : x >= y

\* the walk has run to the end of the tokens without a fatal error
Classified == pc \notin {"main", "load"} /\ index >= Len(args)

\* C9: after a classification without fatal error, the FilterSet maps each
\* filter flag among the tokens to the value after its last occurrence, the
\* CommandSet maps each command flag among the tokens to the value after its
\* first occurrence, every later occurrence of a command flag is reported as
\* a duplicate, and neither set has a key that is not among the tokens.
C9_LastFilterFirstCommand ==
    Classified =>
        /\ IsDict(filters) /\ IsDict(commands)
        /\ \A j \in 1..Len(filters) :
             /\ filters[j].flag \in FilterFlags
             /\ Occurrences(filters[j].flag) # {}
        /\ \A j \in 1..Len(commands) :
             /\ commands[j].flag \in CommandFlags
             /\ Occurrences(commands[j].flag) # {}
        /\ \A f \in FilterFlags :
             Occurrences(f) # {} =>
                /\ DictHas(filters, f)
                /\ DictGet(filters, f) = args[Max(Occurrences(f)) + 1]
        /\ \A c \in CommandFlags :
             Occurrences(c) # {} =>
                /\ DictHas(commands, c)
                /\ DictGet(commands, c) = args[Min(Occurrences(c)) + 1]
                /\ Cardinality({n \in 1..Len(dups) : dups[n] = c})
                     = Cardinality(Occurrences(c)) - 1
        /\ \A n \in 1..Len(dups) : dups[n] \in CommandFlags

\* C9's case: a filter flag given twice with two values has been classified
\* and holds the second one.
C9_Witness ==
    /\ Classified
    /\ \E f \in FilterFlags :
         /\ Cardinality(Occurrences(f)) = 2
         /\ args[Min(Occurrences(f)) + 1] # args[Max(Occurrences(f)) + 1]
         /\ DictGet(filters, f) = args[Max(Occurrences(f)) + 1]

\* C9's other case: a command flag given twice with two values has been
\* classified, holds the first one, and the second was reported.
C9_WitnessCommand ==
    /\ Classified
    /\ \E c \in CommandFlags :
         /\ Cardinality(Occurrences(c)) = 2
         /\ args[Min(Occurrences(c)) + 1] # args[Max(Occurrences(c)) + 1]
         /\ DictGet(commands, c) = args[Min(Occurrences(c)) + 1]
         /\ dups = <<c>>

\* ------------------------------------------------------------------ the filter engine's claims

\* the raw value of a numeric flag parses as that flag's numeric type
Parsable(flag, value) ==
    IF flag \in {F_rating_above, F_rating_below}
    THEN ParseFloat(value) # None
    ELSE ParseInt(value) # None

AllParsable(d) ==
    \A j \in 1..Len(d) : d[j].flag \in NumericFlags => Parsable(d[j].flag, d[j].value)

\* the filtering pass is over: it has returned, exited or crashed
FilterPassOver == pc \notin {"main", "load", "classify", "filter"}

\* the records of the collection for which every predicate of the filter set
\* is true, in the collection's order
Matching(d) ==
    SelectSeq(movies, LAMBDA m :
        \A j \in 1..Len(d) : flag_map(d[j].flag, m, d[j].value) = "True")

\* the positions of the collection that a filter on its own keeps
KeptAlone(f) ==
    {p \in 1..Len(movies) : flag_map(f.flag, movies[p], f.value) = "True"}

RECURSIVE AtPositions(_, _, _)
AtPositions(s, P, p) ==
    IF p > Len(s) THEN <<>>
    ELSE (IF p \in P THEN <<s[p]>> ELSE <<>>) \o AtPositions(s, P, p + 1)

\* C1: for a filter set whose values all parse, the pass returns, and what it
\* hands to the command engine is the subsequence of the collection made of
\* the records for which every predicate is true, which is the intersection
\* of what each filter keeps on its own; with no filter it is the collection.
C1_FilterIsConjunctionSubsequence ==
    (FilterPassOver /\ AllParsable(filters)) =>
        /\ pc = "top_ten"
        /\ results = Matching(filters)
        /\ results = AtPositions(movies,
                        {p \in 1..Len(movies) :
                            \A j \in 1..Len(filters) : p \in KeptAlone(filters[j])}, 1)
        /\ filters = <<>> => results = movies

\* the field a numeric flag inspects and the direction it compares in
FieldOf(flag) ==
    CASE flag \in {F_year_before, F_year_after}       -> "released_year"
      [] flag \in {F_rating_above, F_rating_below}    -> "imdb_rating"
      [] flag \in {F_runtime_above, F_runtime_below}  -> "runtime"
      [] flag \in {F_gross_above, F_gross_below}      -> "gross"
      [] flag \in {F_score_above, F_score_below}      -> "meta_score"
      [] flag \in {F_votes_above, F_votes_below}      -> "no_of_votes"

IsAbove(flag) ==
    flag \in {F_year_after, F_rating_above, F_runtime_above, F_gross_above,
              F_score_above, F_votes_above}

\* v > t or v < t for the field's value v and the parsed threshold t; the
\* rating is in tenths
StrictlyBeyond(flag, v, value) ==
    LET t == IF flag \in {F_rating_above, F_rating_below}
             THEN ParseFloat(value)[1]
             ELSE [num |-> ParseInt(value)[1] * 10, den |-> 10]
        s == IF flag \in {F_rating_above, F_rating_below} THEN 1 ELSE 10
    IN  IF IsAbove(flag) THEN v * s * t.den > t.num * 10
                         ELSE v * s * t.den < t.num * 10

\* C2: a call of a numeric predicate with a parsable threshold t is false on
\* a record without the field, and on a record whose field is v it is true
\* exactly when v > t (after, above) or v < t (before, below).
C2_NumericPredicateStrict ==
    \A c \in calls :
        (c.flag \in NumericFlags /\ Parsable(c.flag, c.value)) =>
            /\ c.outcome \in {"True", "False"}
            /\ c.outcome = "True" <=>
                 /\ c.movie[FieldOf(c.flag)] # None
                 /\ StrictlyBeyond(c.flag, c.movie[FieldOf(c.flag)][1], c.value)

\* C3: a call of the genre predicate is true exactly when the value equals,
\* whatever the case, one of the pieces of the genre field split on commas;
\* on the genre "Drama, Comedy" it is true for Drama and for Comedy and false
\* for Dra.
C3_GenreTokenMatch ==
    \A c \in calls :
        c.flag = F_genre =>
            /\ c.outcome = "True" <=>
                 /\ c.movie.genre # None
                 /\ InList(Lower(c.value), Split(Lower(c.movie.genre[1]), ","))
            /\ c.movie.genre = Some(S_Drama_Comedy) =>
                 /\ c.value \in {S_Drama, T_Comedy} => c.outcome = "True"
                 /\ c.value = T_Dra => c.outcome = "False"

\* C4: on a non-empty collection, a filter set with a numeric flag whose
\* value does not parse ends the pass fatally: no result list is returned.
C4_UnparsableValueIsFatal ==
    (FilterPassOver /\ Len(movies) > 0 /\ ~AllParsable(filters)) =>
        pc \in {"exit", "crash"}

\* ------------------------------------------------------------------ the invocation's claims

\* the source was opened and loaded
SourceLoaded == load_movies(rows).raised = "" /\ err # "SourceNotFound"

\* the first token is neither a flag nor a source name, and flag tokens follow
DefaultedByFormat ==
    /\ Len(args) >= 2
    /\ ~StartsWith(args[1], S_dashdash)
    /\ Extension(args[1]) # S_csv
    /\ StartsWith(args[2], S_dashdash)

ClassifierExits == {"MalformedArgument", "MissingFlagValue", "UnknownFlag"}

\* C5: a first token that is neither a flag nor a csv name is replaced by the
\* default source without a fatal error, and the flag tokens after it are
\* classified, and so filtered and performed, as they are when given alone:
\* the run has the FilterSet, the CommandSet and the classification exit
\* (none, when they classify) of those flag tokens.
C5_NonCsvFirstTokenIsNotFatal ==
    (DefaultedByFormat /\ SourceLoaded /\ pc \notin {"main", "load", "classify"}) =>
        LET alone == collect_filters(Tail(args), 0)
        IN  /\ filters = alone.filters
            /\ commands = alone.commands
            /\ dups = alone.dups
            /\ alone.exit # "" => (pc = "exit" /\ err = alone.exit)
            /\ alone.exit = "" => err \notin ClassifierExits

\* C7: when the run exits on an unrecognised --top-ten or --insights value,
\* no output file has been written and no listing has been printed.
C7_UnknownCommandValueBeforeOutput ==
    (pc = "exit" /\ err = "UnknownCommandValue") =>
        (out.file = None /\ out.listing = None)

\* ------------------------------------------------------------------ the command engine's claims

\* the positions of the collection whose records have every field the
\* criterion's key reads
Rankable(value) ==
    {p \in 1..Len(movies) :
        \A k \in 1..Len(KeyFields(value, movies[p])) :
            KeyFields(value, movies[p])[k] # None}

\* record p comes before record q in the descending order of the criterion:
\* a greater rating, votes, gross, runtime or rating/votes, or the same and an
\* earlier position
RanksBefore(value, p, q) ==
    LET a == SortKey(value, movies[p])
        b == SortKey(value, movies[q])
    IN  \/ a.num * b.den < b.num * a.den
        \/ a.num * b.den = b.num * a.den /\ p < q

\* the place of position p in the ranking
Rank(value, p) ==
    1 + Cardinality({q \in Rankable(value) : q # p /\ RanksBefore(value, q, p)})

Least(a, b) == IF a < b THEN a ELSE b

\* C6: past the top-ten block with one of the five criteria, the reduction
\* has been applied without error, and the collection handed on is the first
\* at most 10 records of the stable descending ordering by the criterion's
\* key over the records that have the fields the key needs.
C6_TopTenRanksRankable ==
    (DictHas(commands, F_top_ten) /\ DictGet(commands, F_top_ten) \in TopTenValues
        /\ pc # "top_ten") =>
        LET value == DictGet(commands, F_top_ten)
        IN  /\ out.top_ten
            /\ Len(results) = Least(TopN, Cardinality(Rankable(value)))
            /\ \A p \in Rankable(value) :
                 Rank(value, p) <= TopN => results[Rank(value, p)] = movies[p]

\* str.strip() of a genre piece: the spaces around it removed
RECURSIVE Strip(_)
Strip(s) ==
    IF s # <<>> /\ Head(s) = " " THEN Strip(Tail(s))
    ELSE IF s # <<>> /\ s[Len(s)] = " " THEN Strip(SubSeq(s, 1, Len(s) - 1))
    ELSE s

\* the genre tokens of a record
GenreTokens(movie) ==
    IF movie.genre = None THEN {}
    ELSE {Strip(Split(movie.genre[1], ",")[k]) :
             k \in 1..Len(Split(movie.genre[1], ","))}

\* the positions of the records printed on that have rating, gross and
\* runtime and carry the genre token
Qualifying(token) ==
    {p \in 1..Len(results) :
        /\ results[p].imdb_rating # None
        /\ results[p].gross # None
        /\ results[p].runtime # None
        /\ token \in GenreTokens(results[p])}

\* C10: the groups of printed genre insights are the genre tokens carried by
\* at least one record with rating, gross and runtime, and each group
\* averages over every such record that carries its token.
C10_GenreGroupsAreTokens ==
    (out.insights # None /\ out.insights[1].kind = V_genre) =>
        LET stats == out.insights[1].stats
            tokens == UNION {GenreTokens(results[p]) : p \in 1..Len(results)}
        IN  /\ {s.key : s \in stats} = {Some(t) : t \in {u \in tokens : Qualifying(u) # {}}}
            /\ \A s \in stats :
                 s.average_rating.den = 10 * Cardinality(Qualifying(s.key[1]))

====
